---- MODULE Spec2Model ----
(***************************************************************************)
(* handoff-guard-ts: the guard() retry/validation loop (src/src/guard.ts),  *)
(* the AsyncLocalStorage carrier of the per-attempt RetryState              *)
(* (src/unnamed/part_002, retry.ts) and HandoffViolation / createDiagnostic *)
(* (src/src/testing.ts, lines 40-104).                                      *)
(*                                                                          *)
(* One guard (one GuardOptions) is shared by the calls in Calls.  A call is *)
(* the async function `guarded`; it is suspended while the producer `fn`    *)
(* runs and resumes when fn's promise settles.  Between two awaits a        *)
(* continuation runs to completion (JavaScript run-to-completion), so each  *)
(* action below is one such continuation.                                   *)
(***************************************************************************)
EXTENDS Integers, Sequences, FiniteSets, TLC

\* ------------------------------------------------------------------ bounds
MaxAttemptsBound == 3      \* largest maxAttempts a guard is configured with
MaxResumes == 1            \* suspension points of the producer per invocation
LongRaw == 600             \* length of a long ParseError.rawOutput

\* ------------------------------------------------------- program constants
DiagnosticRawLimit == 500  \* createDiagnostic: rawOutput?.slice(0, 500)
FeedbackRawLimit == 200    \* formatFeedback: rawOutput.slice(0, 200)

Calls == {1, 2}

Min(a, b) == IF a < b THEN a ELSE b

\* ------------------------------------------------------------ JS values
\* A JavaScript value as far as guard.ts inspects it: its kind, the own keys
\* "state"/"retry" it carries with their (atomic) contents, and `good`, the
\* verdict the configured input schema gives on it.
Keys == {"state", "retry"}
Atoms == {"undefined", "good", "bad"}
NoFields == [k \in Keys |-> "undefined"]

Undefined == [kind |-> "undefined", good |-> FALSE, keys |-> {}, val |-> NoFields]
Null == [kind |-> "null", good |-> FALSE, keys |-> {}, val |-> NoFields]
Prim(a) == [kind |-> "prim", good |-> (a = "good"), keys |-> {}, val |-> NoFields]
Obj(ks, st, g) ==
    [kind |-> "object", good |-> g, keys |-> ks, val |-> [NoFields EXCEPT !["state"] = st]]
Arr(ks, st) ==
    [kind |-> "array", good |-> FALSE, keys |-> ks, val |-> [NoFields EXCEPT !["state"] = st]]

\* the content of a field, as a value
Lift(a) == IF a = "undefined" THEN Undefined ELSE Prim(a)

Truthy(v) == v.kind \notin {"undefined", "null"}
TypeofObject(v) == v.kind \in {"null", "array", "object"}
IsArray(v) == v.kind = "array"
HasKey(v, k) == k \in v.keys
Field(v, k) == Lift(v.val[k])

\* the argument lists the callers pass
FirstArgs ==
    { Prim("good"), Prim("bad"), Null,
      Obj({}, "undefined", TRUE),
      Obj({"state"}, "good", FALSE),
      Obj({"state"}, "bad", TRUE),
      Obj({"retry"}, "undefined", TRUE),
      Arr({"state"}, "good") }
ArgLists ==
    {<<>>} \cup {<<v>> : v \in FirstArgs}
           \cup {<<Obj({}, "undefined", TRUE), w>> : w \in {Undefined, Prim("good")}}

\* ------------------------------------------------------ diagnostics, ledger
NoRaw == -1                \* rawOutput undefined
NoDiag == [type |-> "null", rawOutput |-> NoRaw]      \* diagnostic: null

Slice(len, n) == IF len = NoRaw THEN NoRaw ELSE Min(len, n)

\* createDiagnostic keeping rawOutput as it was given
createDiagnostic_noSlice(data) == data

createDiagnostic(data) ==
    [data EXCEPT !.rawOutput = Slice(data.rawOutput, DiagnosticRawLimit)]

\* the text formatFeedback renders, by its parts; null when there is no diagnostic
NoFeedback == [text |-> "null", type |-> "null", raw |-> NoRaw]
formatFeedback(diagnostic) ==
    IF diagnostic = NoDiag THEN NoFeedback
    ELSE [text |-> "[Retry] Previous attempt failed",
          type |-> diagnostic.type,
          raw  |-> IF diagnostic.rawOutput > 0
                     THEN Slice(diagnostic.rawOutput, FeedbackRawLimit)
                     ELSE NoRaw]

AttemptRecord(n, d) == [attempt |-> n, diagnostic |-> d]

\* HandoffViolation constructor: totalAttempts = history.length || 1
TotalAttempts(hist) == IF Len(hist) # 0 THEN Len(hist) ELSE 1

\* A HandoffViolation.  `shared` tells that its history is the very array the
\* loop keeps pushing to (options.history given), not a fresh [].
HandoffViolation(ctype, hist, sh) ==
    [contractType |-> ctype, totalAttempts |-> TotalAttempts(hist), shared |-> sh]

\* --------------------------------------------------------------- RetryState
\* NewState with isRetry computed as attempt >= 1
NewState_retryFromOne(c, n, maxA, lastErr, hist) ==
    [owner |-> c, attempt |-> n, maxAttempts |-> maxA, remaining |-> maxA - n,
     isRetry |-> n >= 1, isFinalAttempt |-> n = maxA,
     lastError |-> lastErr, history |-> hist]

\* `owner` is the scope the feedback closure captured: feedback() reads the
\* `lastError` variable of the call that built the state (0: none, () => null).
NewState(c, n, maxA, lastErr, hist) ==
    [owner |-> c,
     attempt |-> n,
     maxAttempts |-> maxA,
     remaining |-> maxA - n,
     isRetry |-> n > 1,
     isFinalAttempt |-> n = maxA,
     lastError |-> lastErr,
     history |-> hist]

getDefaultState ==
    [owner |-> 0, attempt |-> 1, maxAttempts |-> 1, remaining |-> 0, isRetry |-> FALSE,
     isFinalAttempt |-> TRUE, lastError |-> NoDiag, history |-> <<>>]

\* ------------------------------------------------------------------- state
VARIABLES
    maxAttempts, retryOn, onFail, inputParam, inputSchema, outputSchema,
                   \* GuardOptions, destructured once by guard()
    pc,            \* where each call is: "idle", "running" (awaiting fn),
                   \* "settled" (fn's promise settled, guarded not yet resumed), "done"
    args,          \* the arguments the caller passes
    inputData,     \* resolveInputData(args, inputParam)
    attempt,       \* the loop counter
    history,       \* the AttemptRecord[] of the call
    lastError,     \* let lastError: Diagnostic | null
    state,         \* the RetryState built for the current attempt
    retryStorage,  \* the AsyncLocalStorage store of each call's async context,
                   \* a stack: run() pushes for the duration of fn
    pending,       \* how fn's promise settled
    produced,      \* how each invocation of fn settled, in order
    callCount,     \* invocations of the producer fn
    seen,          \* what fn read from the `retry` proxy on entry, per invocation
    lastRead,      \* what fn read from the `retry` proxy most recently
    resumed,       \* suspensions of the running invocation so far
    violations,    \* the HandoffViolations constructed, in order
    handled,       \* the outcomes of the handleFailure applications, in order
    outcome,       \* how the call's promise settled
    lastRun,       \* the call whose run() was entered most recently
    callArgs,      \* the arguments fn was invoked with in the latest attempt
    caller,        \* the code that makes each call: "top" (module level, outside
                   \* any run()) or "body" (the function handed to mockRetry)
    mock,          \* the mockRetry invocation: its options, where it is, the
                   \* store of its body's async context, how it settled
    mockRead,      \* what the mockRetry body read from the `retry` proxy last
    topRead        \* what the module-level code read from the `retry` proxy last

config == <<maxAttempts, retryOn, onFail, inputParam, inputSchema, outputSchema>>
vars == <<maxAttempts, retryOn, onFail, inputParam, inputSchema, outputSchema,
          pc, args, inputData, attempt, history, lastError, state, retryStorage,
          pending, produced, callCount, seen, lastRead, resumed, violations, handled,
          outcome, lastRun, callArgs, caller, mock, mockRead, topRead>>
mockVars == <<caller, mock, mockRead, topRead>>

RetryKinds == {"validation", "parse"}
OnFailActions ==
    {"raise", "throw", "return_none", "returnNull", "return_input", "returnInput"}
Custom == "function"                    \* onFail is a handler function
OnFailChoices == {"raise", "returnNull", "return_input", Custom}
InputParamUnset == ""                   \* inputParam undefined (falsy)
HandlerBehaviours == {"return", "throwParse", "throwOther"}
RawLens == {0, LongRaw}

NoPending == [kind |-> "none", good |-> FALSE, by |-> 0, rawOutput |-> NoRaw]
NoOutcome == [kind |-> "none", tag |-> "none", by |-> 0, input |-> Undefined, viol |-> 0]
Returned(t, b, i, v) == [kind |-> "return", tag |-> t, by |-> b, input |-> i, viol |-> v]
Threw(t, v) == [kind |-> "throw", tag |-> t, by |-> 0, input |-> Undefined, viol |-> v]

\* -------------------------------------------------- retry.ts: the carrier
NoStore == [owner |-> 0, attempt |-> 0]

\* getStore reading one module-level slot, the store of the latest run(),
\* instead of the store of the running continuation's own async context
getStore_global(c) ==
    IF lastRun = 0 \/ retryStorage[lastRun] = <<>> THEN NoStore
    ELSE retryStorage[lastRun][Len(retryStorage[lastRun])]

\* retryStorage.getStore() evaluated by a continuation of call c
getStore(c) ==
    IF retryStorage[c] = <<>> THEN NoStore ELSE retryStorage[c][Len(retryStorage[c])]

\* state.feedback(): () => formatFeedback(lastError), lastError the variable of
\* the call that built the state
feedbackOf(s) == IF s.owner = 0 THEN NoFeedback ELSE formatFeedback(lastError[s.owner])

\* the `retry` proxy: every property is read off the current store, or off the
\* defaults when there is none
retry(c) ==
    LET s == IF getStore(c) = NoStore THEN getDefaultState ELSE getStore(c)
    IN [attempt |-> s.attempt, maxAttempts |-> s.maxAttempts,
        remaining |-> s.remaining, isRetry |-> s.isRetry,
        isFinalAttempt |-> s.isFinalAttempt, lastError |-> s.lastError,
        history |-> s.history, feedback |-> feedbackOf(s)]

\* -------------------------------------------------- guard.ts: pure helpers
\* resolveInputData without the !Array.isArray(firstArg) test
resolveInputData_arrays(a, param) ==
    IF Len(a) = 0 THEN Undefined
    ELSE IF param = InputParamUnset THEN a[1]
    ELSE IF Truthy(a[1]) /\ TypeofObject(a[1]) /\ HasKey(a[1], param)
         THEN Field(a[1], param)
         ELSE a[1]

resolveInputData(a, param) ==
    IF Len(a) = 0 THEN Undefined
    ELSE IF param = InputParamUnset THEN a[1]
    ELSE IF /\ Truthy(a[1])
            /\ TypeofObject(a[1])
            /\ ~IsArray(a[1])
            /\ HasKey(a[1], param)
         THEN Field(a[1], param)
         ELSE a[1]

\* a RetryState as an argument value, and a copy of object v whose retry field
\* holds the state: { ...asRecord, retry: state }
StateValue(st) == [kind |-> "object", good |-> FALSE, keys |-> {}, val |-> NoFields, state |-> st]
WithRetry(v, st) ==
    [kind |-> v.kind, good |-> v.good, keys |-> v.keys \cup {"retry"}, val |-> v.val,
     retry |-> st]

\* buildCallArgs passing the arguments on when neither rule applies
buildCallArgs_noAppend(a, st) ==
    IF Len(a) >= 2
    THEN IF a[2] = Undefined THEN [a EXCEPT ![2] = StateValue(st)] ELSE a
    ELSE IF /\ Len(a) >= 1
            /\ Truthy(a[1]) /\ TypeofObject(a[1]) /\ ~IsArray(a[1])
            /\ HasKey(a[1], "retry") /\ Field(a[1], "retry") = Undefined
         THEN <<WithRetry(a[1], st)>> \o Tail(a)
         ELSE a

\* buildCallArgs(args, state): the arguments fn is applied to, a fresh list
buildCallArgs(a, st) ==
    IF Len(a) >= 2
    THEN IF a[2] = Undefined THEN [a EXCEPT ![2] = StateValue(st)] ELSE a
    ELSE IF /\ Len(a) >= 1
            /\ Truthy(a[1])
            /\ TypeofObject(a[1])
            /\ ~IsArray(a[1])
            /\ HasKey(a[1], "retry")
            /\ Field(a[1], "retry") = Undefined
         THEN <<WithRetry(a[1], st)>> \o Tail(a)
         ELSE Append(a, StateValue(st))

\* safeParse with the success flag read inverted
safeParse_inverted(value) == ~value.good

\* schema.safeParse(value).success
safeParse(value) == value.good

\* a loop that also continues after its last iteration
ShouldRetry_lastToo(n, kind) == n <= maxAttempts /\ kind \in retryOn

\* attempt < maxAttempts && retryOn.includes(kind)
ShouldRetry(n, kind) == n < maxAttempts /\ kind \in retryOn

\* the raw re-throw decided on maxAttempts alone
PropagateParseError_singleAttempt == maxAttempts = 1

\* maxAttempts === 1 || !retryOn.includes('parse')
PropagateParseError == maxAttempts = 1 \/ "parse" \notin retryOn

\* handleFailure that knows 'returnInput' but not 'return_input'
handleFailure_noSnakeCase(vi, input, policy, h) ==
    IF policy \in {"raise", "throw"} THEN Threw("violation", vi)
    ELSE IF policy \in {"return_none", "returnNull"} THEN Returned("null", 0, Undefined, vi)
    ELSE IF policy \in {"returnInput"} THEN Returned("input", 0, input, vi)
    ELSE IF policy = Custom
         THEN CASE h = "return" -> Returned("handler", 0, Undefined, vi)
                [] h = "throwParse" -> Threw("handlerParseError", vi)
                [] OTHER -> Threw("handlerError", vi)
    ELSE Threw("violation", vi)

\* handleFailure: the outcome of applying the failure policy to violation
\* number vi; h is what a handler function does when it is called
handleFailure(vi, input, policy, h) ==
    IF policy \in {"raise", "throw"} THEN Threw("violation", vi)
    ELSE IF policy \in {"return_none", "returnNull"} THEN Returned("null", 0, Undefined, vi)
    ELSE IF policy \in {"return_input", "returnInput"} THEN Returned("input", 0, input, vi)
    ELSE IF policy = Custom
         THEN CASE h = "return" -> Returned("handler", 0, Undefined, vi)
                [] h = "throwParse" -> Threw("handlerParseError", vi)
                [] OTHER -> Threw("handlerError", vi)
    ELSE Threw("violation", vi)

\* a catch block that takes every error for a ParseError
IsParseError_any(o) == o.kind = "throw"

\* error instanceof ParseError
IsParseError(o) == o.kind = "throw" /\ o.tag \in {"parseError", "handlerParseError"}

\* ------------------------------------------- guard.ts: the body of guarded
\* The locals of one call, as the synchronous code between two awaits
\* transforms them.  L.pc = "running" means: the next iteration has been
\* entered and fn is to be invoked; "done" means guarded has returned or thrown.
Locals(c) ==
    [pc |-> pc[c], attempt |-> attempt[c], history |-> history[c],
     lastError |-> lastError[c], violations |-> violations[c],
     handled |-> handled[c], outcome |-> outcome[c]]

Finish(L, o) == [L EXCEPT !.pc = "done", !.outcome = o]

\* a loop that, before a retry, waits for a timer nobody starts
LoopHead_stall(L, n) ==
    IF n <= maxAttempts
    THEN [L EXCEPT !.pc = IF n = 1 THEN "running" ELSE "waiting", !.attempt = n]
    ELSE Finish(L, Threw("unexpectedEnd", 0))

\* for (let attempt = ...; attempt <= maxAttempts; attempt++), entered with n;
\* falling out of the loop reaches `throw new Error('Unexpected end of retry loop')`
LoopHead(L, n) ==
    IF n <= maxAttempts
    THEN [L EXCEPT !.pc = "running", !.attempt = n]
    ELSE Finish(L, Threw("unexpectedEnd", 0))

\* the loop going on without pushing the failed attempt's record
Record_noPush(L, diagnostic) == [L EXCEPT !.lastError = diagnostic]

\* history.push({attempt, ..., diagnostic}); lastError = diagnostic
Record(L, diagnostic) ==
    [L EXCEPT !.history = Append(@, AttemptRecord(L.attempt, diagnostic)),
              !.lastError = diagnostic]

\* new HandoffViolation({context, history}) followed by handleFailure(...)
Fail(L, ctype, input, h) ==
    LET shared == ctype = "output"
        v  == HandoffViolation(ctype, IF shared THEN L.history ELSE <<>>, shared)
        vi == Len(L.violations) + 1
        o  == handleFailure(vi, input, onFail, h)
    IN [locals |-> [L EXCEPT !.violations = Append(@, v), !.handled = Append(@, o)],
        result |-> o]

\* catch (error) { ... }, lines 151-197; err is what was thrown inside the try
catchBlock(L, err, input, h) ==
    IF IsParseError(err)
    THEN LET diagnostic == createDiagnostic([type |-> "parse", rawOutput |-> err.raw])
             L1 == Record(L, diagnostic)
         IN IF ShouldRetry(L.attempt, "parse") THEN LoopHead(L1, L.attempt + 1)
            ELSE IF PropagateParseError THEN Finish(L1, err.thrown)
            ELSE LET f == Fail(L1, "output", input, h)
                 IN Finish(f.locals, f.result)
    ELSE Finish(L, err.thrown)

\* what is thrown inside the try: the outcome o and, for a ParseError, its rawOutput
Thrown(o, raw) == [kind |-> o.kind, tag |-> o.tag, thrown |-> o, raw |-> raw]

\* a try block that gives the last value back when validation fails for good
tryBlock_returnUnchecked(L, result, input, h1, h2) ==
    IF outputSchema /\ ~safeParse(result)
    THEN LET diagnostic == createDiagnostic([type |-> "validation", rawOutput |-> NoRaw])
             L1 == Record(L, diagnostic)
         IN IF ShouldRetry(L.attempt, "validation") THEN LoopHead(L1, L.attempt + 1)
            ELSE Finish(L1, Returned("result", result.by, Undefined, 0))
    ELSE Finish([L EXCEPT !.history = Append(@, AttemptRecord(L.attempt, NoDiag))],
                Returned("result", result.by, Undefined, 0))

\* the try block after `await runWithRetryStateAsync(...)` resolved with result,
\* lines 98-150; h1, h2: what the handler does on its first and second call
tryBlock(L, result, input, h1, h2) ==
    IF outputSchema /\ ~safeParse(result)
    THEN LET diagnostic == createDiagnostic([type |-> "validation", rawOutput |-> NoRaw])
             L1 == Record(L, diagnostic)
         IN IF ShouldRetry(L.attempt, "validation") THEN LoopHead(L1, L.attempt + 1)
            ELSE LET f == Fail(L1, "output", input, h1)
                 IN IF f.result.kind = "throw"
                    THEN catchBlock(f.locals, Thrown(f.result, 0), input, h2)
                    ELSE Finish(f.locals, f.result)
    ELSE Finish([L EXCEPT !.history = Append(@, AttemptRecord(L.attempt, NoDiag))],
                Returned("result", result.by, Undefined, 0))

\* guarded entering the loop without validating the input
entry_noInputCheck(L, input, h) == LoopHead(L, 1)

\* lines 51-72 and the entry of the loop
entry(L, input, h) ==
    IF inputSchema /\ ~safeParse(input)
    THEN LET f == Fail(L, "input", input, h) IN Finish(f.locals, f.result)
    ELSE LoopHead(L, 1)

\* ------------------------------------------------------------- transitions
\* a carrier that sets one store for every context (enterWith on a shared
\* context) instead of running fn in a context of its own
runWithRetryStateAsync_enterWith(c, s) == [d \in Calls |-> Append(retryStorage[d], s)]

\* retryStorage.run(state, fn): the store of the call's async context while fn
\* and its continuations run; the previous store is back once fn has settled
runWithRetryStateAsync(c, s) == [retryStorage EXCEPT ![c] = Append(@, s)]
exitRun(c) == [retryStorage EXCEPT ![c] = SubSeq(@, 1, Len(@) - 1)]

\* The locals L take effect.  When L enters an iteration, lines 79-96 run too:
\* the RetryState is built, published, and fn is invoked and runs up to its
\* first await, reading the `retry` proxy.
Commit(c, L) ==
    /\ pc' = [pc EXCEPT ![c] = L.pc]
    /\ attempt' = [attempt EXCEPT ![c] = L.attempt]
    /\ history' = [history EXCEPT ![c] = L.history]
    /\ lastError' = [lastError EXCEPT ![c] = L.lastError]
    /\ violations' = [violations EXCEPT ![c] = L.violations]
    /\ handled' = [handled EXCEPT ![c] = L.handled]
    /\ outcome' = [outcome EXCEPT ![c] = L.outcome]
    /\ pending' = [pending EXCEPT ![c] = NoPending]
    /\ UNCHANGED produced
    /\ IF L.pc = "running"
       THEN /\ state' = [state EXCEPT ![c] =
                            NewState(c, L.attempt, maxAttempts, L.lastError, L.history)]
            /\ retryStorage' = runWithRetryStateAsync(c, state'[c])
            /\ lastRun' = c
            /\ callCount' = [callCount EXCEPT ![c] = @ + 1]
            /\ resumed' = [resumed EXCEPT ![c] = 0]
            /\ lastRead' = [lastRead EXCEPT ![c] = retry(c)']
            /\ seen' = [seen EXCEPT ![c] = Append(@, lastRead'[c])]
            /\ callArgs' = [callArgs EXCEPT ![c] = buildCallArgs(args[c], state'[c])]
       ELSE UNCHANGED <<state, retryStorage, lastRun, callCount, resumed, lastRead, seen,
                        callArgs>>

\* guarded(...args) up to its first await, or to its end when the input is rejected
guardedCall(c) ==
    /\ pc[c] = "idle"
    /\ caller[c] = "body" => mock.pc = "body"      \* the calling code is running
    /\ \E h \in HandlerBehaviours :
         LET input == resolveInputData(args[c], inputParam)
         IN /\ inputData' = [inputData EXCEPT ![c] = input]
            /\ Commit(c, entry(Locals(c), input, h))
    /\ UNCHANGED <<config, args>>
    /\ UNCHANGED mockVars

\* fn resumes after one of its own awaits and reads the `retry` proxy again
ProducerResume(c) ==
    /\ pc[c] = "running"
    /\ resumed[c] < MaxResumes
    /\ resumed' = [resumed EXCEPT ![c] = @ + 1]
    /\ lastRead' = [lastRead EXCEPT ![c] = retry(c)]
    /\ UNCHANGED <<config, pc, args, inputData, attempt, history, lastError, state,
                   retryStorage, pending, produced, callCount, seen, violations,
                   handled, outcome, lastRun, callArgs>>
    /\ UNCHANGED mockVars

Settle(c, p) ==
    /\ pc[c] = "running"
    /\ pc' = [pc EXCEPT ![c] = "settled"]
    /\ pending' = [pending EXCEPT ![c] = p]
    /\ produced' = [produced EXCEPT ![c] = Append(@, p)]
    /\ retryStorage' = exitRun(c)
    /\ UNCHANGED <<config, args, inputData, attempt, history, lastError, state,
                   callCount, seen, lastRead, resumed, violations, handled,
                   outcome, lastRun, callArgs>>
    /\ UNCHANGED mockVars

\* fn's promise resolves with a value the output schema accepts (g) or not
ProducerReturn(c) ==
    \E g \in BOOLEAN :
        Settle(c, [kind |-> "value", good |-> g, by |-> callCount[c], rawOutput |-> NoRaw])

\* fn throws a ParseError carrying a rawOutput of length r
ProducerThrowParseError(c) ==
    \E r \in RawLens :
        Settle(c, [kind |-> "parseError", good |-> FALSE, by |-> callCount[c], rawOutput |-> r])

\* fn throws anything else
ProducerThrowError(c) ==
    Settle(c, [kind |-> "error", good |-> FALSE, by |-> callCount[c], rawOutput |-> NoRaw])

\* guarded resumes with fn's result: lines 98-150
AttemptReturned(c) ==
    /\ pc[c] = "settled"
    /\ pending[c].kind = "value"
    /\ \E h1, h2 \in HandlerBehaviours :
         Commit(c, tryBlock(Locals(c), pending[c], inputData[c], h1, h2))
    /\ UNCHANGED <<config, args, inputData>>
    /\ UNCHANGED mockVars

\* guarded resumes in its catch block: lines 151-197
AttemptThrew(c) ==
    /\ pc[c] = "settled"
    /\ pending[c].kind \in {"parseError", "error"}
    /\ \E h \in HandlerBehaviours :
         Commit(c, catchBlock(Locals(c),
                              Thrown(Threw(pending[c].kind, 0), pending[c].rawOutput),
                              inputData[c], h))
    /\ UNCHANGED <<config, args, inputData>>
    /\ UNCHANGED mockVars

Next ==
    \E c \in Calls :
        \/ guardedCall(c)
        \/ ProducerResume(c)
        \/ ProducerReturn(c)
        \/ ProducerThrowParseError(c)
        \/ ProducerThrowError(c)
        \/ AttemptReturned(c)
        \/ AttemptThrew(c)

NoRead == [attempt |-> 0]

InitCalls(started) ==
    /\ pc = [c \in Calls |-> IF c \in started THEN "idle" ELSE "absent"]
    /\ inputData = [c \in Calls |-> Undefined]
    /\ attempt = [c \in Calls |-> 0]
    /\ history = [c \in Calls |-> <<>>]
    /\ lastError = [c \in Calls |-> NoDiag]
    /\ state = [c \in Calls |-> NoStore]
    /\ retryStorage = [c \in Calls |-> <<>>]
    /\ pending = [c \in Calls |-> NoPending]
    /\ produced = [c \in Calls |-> <<>>]
    /\ callCount = [c \in Calls |-> 0]
    /\ seen = [c \in Calls |-> <<>>]
    /\ lastRead = [c \in Calls |-> NoRead]
    /\ resumed = [c \in Calls |-> 0]
    /\ violations = [c \in Calls |-> <<>>]
    /\ handled = [c \in Calls |-> <<>>]
    /\ outcome = [c \in Calls |-> NoOutcome]
    /\ lastRun = 0
    /\ callArgs = [c \in Calls |-> <<>>]

\* no mockRetry in the program: every call is made by module-level code
NoMock == [pc |-> "absent"]
InitNoMock ==
    /\ caller = [c \in Calls |-> "top"]
    /\ mock = NoMock
    /\ mockRead = NoRead
    /\ topRead = NoRead

\* one call to a guard of any configuration
Init ==
    /\ maxAttempts \in 1..MaxAttemptsBound
    /\ retryOn \in SUBSET RetryKinds
    /\ onFail \in OnFailChoices
    /\ inputParam \in {InputParamUnset, "state"}
    /\ inputSchema \in BOOLEAN
    /\ outputSchema \in BOOLEAN
    /\ args \in {a \in [Calls -> ArgLists] : a[2] = <<>>}
    /\ InitCalls({1})
    /\ InitNoMock

Spec == Init /\ [][Next]_vars

\* two concurrent calls to the same guard
MaxAttemptsConc == 2
InitConc ==
    /\ maxAttempts \in 1..MaxAttemptsConc
    /\ retryOn = RetryKinds
    /\ onFail \in {"raise", Custom}
    /\ inputParam = InputParamUnset
    /\ inputSchema = TRUE
    /\ outputSchema = TRUE
    /\ args \in [Calls -> {<<Prim("good")>>, <<Prim("bad")>>}]
    /\ InitCalls(Calls)
    /\ InitNoMock

SpecConc == InitConc /\ [][Next]_vars

\* One call, under the scheduling the runtime gives: a producer invocation
\* that has begun settles (the hypothesis that fn returns or throws), and the
\* continuation of guarded runs once the promise it awaits has settled.
MaxAttemptsLive == 3
InitLive ==
    /\ maxAttempts \in 1..MaxAttemptsLive
    /\ retryOn \in SUBSET RetryKinds
    /\ onFail \in {"raise", "return_input", Custom}
    /\ inputParam = InputParamUnset
    /\ inputSchema = TRUE
    /\ outputSchema = TRUE
    /\ args \in {a \in [Calls -> {<<Prim("good")>>, <<Prim("bad")>>}] : a[2] = a[1]}
    /\ InitCalls({1})
    /\ InitNoMock

ProducerSettles(c) ==
    ProducerReturn(c) \/ ProducerThrowParseError(c) \/ ProducerThrowError(c)

Fairness ==
    \A c \in Calls :
        /\ WF_vars(guardedCall(c))
        /\ WF_vars(ProducerSettles(c))
        /\ WF_vars(AttemptReturned(c))
        /\ WF_vars(AttemptThrew(c))

SpecLive == InitLive /\ [][Next]_vars /\ Fairness

\* one call, with every shape of argument list buildCallArgs distinguishes
RetrySet == [Obj({"retry"}, "undefined", TRUE) EXCEPT !.val["retry"] = "good"]
RetryUnset == Obj({"retry"}, "undefined", TRUE)
NoRetryKey == Obj({}, "undefined", TRUE)
InjectArgLists ==
    { <<>>, <<Prim("good")>>, <<Null>>, <<NoRetryKey>>, <<RetryUnset>>, <<RetrySet>>,
      <<Arr({"retry"}, "undefined")>>,
      <<NoRetryKey, Undefined>>, <<NoRetryKey, Prim("good")>>,
      <<RetryUnset, Undefined>>, <<RetryUnset, Prim("good")>>,
      <<NoRetryKey, Undefined, Prim("good")>> }

InitInject ==
    /\ maxAttempts = 2
    /\ retryOn = RetryKinds
    /\ onFail \in {"raise", "returnNull"}
    /\ inputParam = InputParamUnset
    /\ inputSchema = FALSE
    /\ outputSchema = TRUE
    /\ args \in {a \in [Calls -> InjectArgLists] : a[2] = <<>>}
    /\ InitCalls({1})
    /\ InitNoMock

SpecInject == InitInject /\ [][Next]_vars

\* ---------------------------------------------- testing.ts: mockRetry
MockDefaultAttempt == 2        \* const { attempt = 2, ... } = options
MockDefaultMaxAttempts == 3    \* const { ..., maxAttempts = 3, ... } = options
MaxMockAttempt == 3            \* largest attempt / maxAttempts a test passes

OptionUnset == 0               \* a numeric option that is not given
MockOwner == -1                \* the feedback closure built by mockRetry
TextUnset == "<undefined>"     \* feedbackText not given
CannedText == "Fix the output"
TruthyText(t) == t \notin {TextUnset, ""}

\* a Diagnostic as a test hands it to mockRetry: { type, message }
MockDiagnostic(t, msg) == [type |-> t, rawOutput |-> NoRaw, message |-> msg]
GivenLastError == MockDiagnostic("parse", "bad json")

MockOptions ==
    [attempt : {OptionUnset} \cup 1..MaxMockAttempt,
     maxAttempts : {OptionUnset, 1, MaxMockAttempt},
     feedbackText : {TextUnset, "", CannedText},
     lastError : {NoDiag, GivenLastError}]

\* lastError = options.lastError ?? null; if (!lastError && feedbackText) ...
MockLastError(o) ==
    IF o.lastError # NoDiag THEN o.lastError
    ELSE IF TruthyText(o.feedbackText) THEN MockDiagnostic("validation", o.feedbackText)
    ELSE NoDiag

\* mockRetry taking feedbackText first and options.lastError only without it
MockState_textFirst(o) ==
    LET a == IF o.attempt = OptionUnset THEN MockDefaultAttempt ELSE o.attempt
        m == IF o.maxAttempts = OptionUnset THEN MockDefaultMaxAttempts ELSE o.maxAttempts
    IN [owner |-> MockOwner, attempt |-> a, maxAttempts |-> m, remaining |-> m - a,
        isRetry |-> a > 1, isFinalAttempt |-> a = m,
        lastError |-> IF TruthyText(o.feedbackText)
                      THEN MockDiagnostic("validation", o.feedbackText)
                      ELSE o.lastError,
        history |-> <<>>]

\* the RetryState mockRetry builds from its options
MockState(o) ==
    LET a == IF o.attempt = OptionUnset THEN MockDefaultAttempt ELSE o.attempt
        m == IF o.maxAttempts = OptionUnset THEN MockDefaultMaxAttempts ELSE o.maxAttempts
    IN [owner |-> MockOwner,
        attempt |-> a,
        maxAttempts |-> m,
        remaining |-> m - a,
        isRetry |-> a > 1,
        isFinalAttempt |-> a = m,
        lastError |-> MockLastError(o),
        history |-> <<>>]

\* () => lastError ? `Mock feedback for: ${lastError.message}` : null
mockFeedback(e) ==
    IF e = NoDiag THEN NoFeedback
    ELSE [text |-> "Mock feedback for: ", type |-> "null", raw |-> NoRaw,
          message |-> e.message]

\* state.feedback() of a state built by mockRetry or by the guard
feedbackIn(s) == IF s.owner = MockOwner THEN mockFeedback(s.lastError) ELSE feedbackOf(s)

\* getStore reading a module-level slot that run() assigns and never clears
getStoreIn_slot(x) ==
    IF lastRun = 0 THEN NoStore
    ELSE IF lastRun = MockOwner THEN MockState(mock.opts)
    ELSE state[lastRun]

\* retryStorage.getStore() evaluated by the calling code: module-level code
\* runs in no run() at all, the mockRetry body in the run() of mockRetry
getStoreIn(x) ==
    IF x = "body" /\ mock.store # <<>> THEN mock.store[Len(mock.store)] ELSE NoStore

\* the `retry` proxy read by the calling code x
retryIn(x) ==
    LET s == IF getStoreIn(x) = NoStore THEN getDefaultState ELSE getStoreIn(x)
    IN [attempt |-> s.attempt, maxAttempts |-> s.maxAttempts,
        remaining |-> s.remaining, isRetry |-> s.isRetry,
        isFinalAttempt |-> s.isFinalAttempt, lastError |-> s.lastError,
        history |-> s.history, feedback |-> feedbackIn(s)]

\* a read, and where the mockRetry invocation and call 1 were when it was made
ReadAt(x) == [val |-> retryIn(x), mockPc |-> mock.pc, pc1 |-> pc[1]]

guardVars ==
    <<config, pc, args, inputData, attempt, history, lastError, state, retryStorage,
      pending, produced, callCount, seen, lastRead, resumed, violations, handled,
      outcome, callArgs>>

\* mockRetry(options, fn) up to fn's first await
mockRetry ==
    /\ mock.pc = "idle"
    /\ mock' = [mock EXCEPT !.pc = "body",
                            !.store = Append(@, MockState(mock.opts)),
                            !.resumed = 0]
    /\ lastRun' = MockOwner
    /\ UNCHANGED <<guardVars, caller, topRead>>
    /\ mockRead' = ReadAt("body")'

\* fn resumes after one of its awaits and reads the proxy again
MockBodyResume ==
    /\ mock.pc = "body"
    /\ mock.resumed < MaxResumes
    /\ mock' = [mock EXCEPT !.resumed = @ + 1]
    /\ UNCHANGED <<guardVars, lastRun, caller, topRead>>
    /\ mockRead' = ReadAt("body")'

\* fn's promise settles; it is the promise mockRetry returned
MockBodySettles ==
    /\ mock.pc = "body"
    /\ \E k \in {"return", "throw"} :
          mock' = [mock EXCEPT !.pc = "done",
                               !.store = SubSeq(@, 1, Len(@) - 1),
                               !.fnResult = k,
                               !.outcome = k]
    /\ UNCHANGED <<guardVars, lastRun, caller, mockRead, topRead>>

\* module-level code reads the proxy
TopRead ==
    /\ topRead' = ReadAt("top")
    /\ UNCHANGED <<guardVars, lastRun, caller, mock, mockRead>>

\* a test of a producer in isolation: module-level code calls mockRetry with
\* any options; no guarded function is involved
NextMock ==
    \/ mockRetry
    \/ MockBodyResume
    \/ MockBodySettles
    \/ TopRead

MockIdle(o) ==
    [pc |-> "idle", opts |-> o, store |-> <<>>, resumed |-> 0,
     fnResult |-> "none", outcome |-> "none"]

InitMock ==
    /\ maxAttempts = 1
    /\ retryOn = RetryKinds
    /\ onFail = "raise"
    /\ inputParam = InputParamUnset
    /\ inputSchema = FALSE
    /\ outputSchema = FALSE
    /\ args = [c \in Calls |-> <<>>]
    /\ InitCalls({})
    /\ caller = [c \in Calls |-> "top"]
    /\ \E o \in MockOptions : mock = MockIdle(o)
    /\ mockRead = NoRead
    /\ topRead = NoRead

SpecMock == InitMock /\ [][NextMock]_vars

\* module-level code calls mockRetry, and one guarded function is called once,
\* by the module-level code or by the mockRetry body
NextCaller ==
    \/ mockRetry
    \/ MockBodyResume
    \/ MockBodySettles
    \/ TopRead
    \/ guardedCall(1)
    \/ ProducerResume(1)
    \/ ProducerReturn(1)
    \/ ProducerThrowParseError(1)
    \/ ProducerThrowError(1)
    \/ AttemptReturned(1)
    \/ AttemptThrew(1)

CallerMockOptions ==
    { [attempt |-> OptionUnset, maxAttempts |-> OptionUnset,
       feedbackText |-> TextUnset, lastError |-> NoDiag],
      [attempt |-> 1, maxAttempts |-> 1,
       feedbackText |-> CannedText, lastError |-> NoDiag] }

InitCaller ==
    /\ maxAttempts = 2
    /\ retryOn = RetryKinds
    /\ onFail = "raise"
    /\ inputParam = InputParamUnset
    /\ inputSchema = FALSE
    /\ outputSchema = TRUE
    /\ args = [c \in Calls |-> <<Prim("good")>>]
    /\ InitCalls({1})
    /\ caller \in {[c \in Calls |-> "top"], [c \in Calls |-> IF c = 1 THEN "body" ELSE "top"]}
    /\ \E o \in CallerMockOptions : mock = MockIdle(o)
    /\ mockRead = NoRead
    /\ topRead = NoRead

SpecCaller == InitCaller /\ [][NextCaller]_vars

\* Nesting: call 1 is made by module-level code; its producer, while it runs,
\* calls the guarded function again (call 2) and calls mockRetry.
ProducerCallsGuarded == pc[1] = "running" /\ guardedCall(2)
ProducerCallsMockRetry == pc[1] = "running" /\ mockRetry

NextNested ==
    \/ guardedCall(1)
    \/ ProducerCallsGuarded
    \/ ProducerCallsMockRetry
    \/ MockBodyResume
    \/ MockBodySettles
    \/ ProducerResume(1)
    \/ \E c \in Calls :
          \/ ProducerReturn(c)
          \/ ProducerThrowParseError(c)
          \/ ProducerThrowError(c)
          \/ AttemptReturned(c)
          \/ AttemptThrew(c)

InitNested ==
    /\ maxAttempts = 2
    /\ retryOn = RetryKinds
    /\ onFail = "raise"
    /\ inputParam = InputParamUnset
    /\ inputSchema = FALSE
    /\ outputSchema = TRUE
    /\ args = [c \in Calls |-> <<Prim("good")>>]
    /\ InitCalls(Calls)
    /\ caller = [c \in Calls |-> IF c = 1 THEN "top" ELSE "producer"]
    /\ mock = MockIdle([attempt |-> 1, maxAttempts |-> 1,
                        feedbackText |-> CannedText, lastError |-> NoDiag])
    /\ mockRead = NoRead
    /\ topRead = NoRead

SpecNested == InitNested /\ [][NextNested]_vars

\* ------------------------------------------------------- utils.ts: parseJson
\* A string is a sequence of tokens, each standing for one or more characters:
\* the byte-order mark U+FEFF, a space, a newline, a fence ```, a digit, a
\* character no JSON text starts with, and a long run of such characters.
MaxTokens == 4
ParseRawLimit == 500
Tokens == {"BOM", "SP", "NL", "FENCE", "DIGIT", "JUNK", "LONG"}
TokLen(t) == CASE t = "FENCE" -> 3 [] t = "LONG" -> LongRaw [] OTHER -> 1

RECURSIVE TextLen(_)
TextLen(s) == IF s = <<>> THEN 0 ELSE TokLen(Head(s)) + TextLen(Tail(s))

\* String.prototype.trim removes WhiteSpace and LineTerminator, U+FEFF included
IsBlank(t) == t \in {"SP", "NL", "BOM"}
RECURSIVE trimStart(_)
trimStart(s) == IF s # <<>> /\ IsBlank(Head(s)) THEN trimStart(Tail(s)) ELSE s
RECURSIVE trimEnd(_)
trimEnd(s) ==
    IF s # <<>> /\ IsBlank(s[Len(s)]) THEN trimEnd(SubSeq(s, 1, Len(s) - 1)) ELSE s
trim(s) == trimEnd(trimStart(s))

\* the index of the first newline of s, 0 when it has none
FirstNL(s) ==
    IF \E k \in 1..Len(s) : s[k] = "NL"
    THEN CHOOSE k \in 1..Len(s) : s[k] = "NL" /\ \A j \in 1..(k - 1) : s[j] # "NL"
    ELSE 0

\* lines 21-37: text after the BOM and the code fences are stripped
stripped(input) ==
    LET text == IF input # <<>> /\ Head(input) = "BOM" THEN Tail(input) ELSE input
        str  == trim(text)
    IN IF str # <<>> /\ Head(str) = "FENCE"
       THEN LET k    == FirstNL(str)
                \* lines[0] is the text before the first newline, or all of it
                body == IF k = 0 THEN <<>> ELSE SubSeq(str, k + 1, Len(str))
                te   == trimEnd(body)
                b2   == IF te # <<>> /\ te[Len(te)] = "FENCE"
                        THEN SubSeq(te, 1, Len(te) - 1) ELSE body
            IN trim(b2)
       ELSE str

\* JSON.parse on these texts: a number when the text is digits, a SyntaxError
\* otherwise (the empty text included)
JSONparse(text) ==
    IF text # <<>> /\ \A i \in 1..Len(text) : text[i] = "DIGIT"
    THEN [ok |-> TRUE, value |-> Len(text)]
    ELSE [ok |-> FALSE, value |-> 0]

\* An input of parseJson: a string, or another value of which only the length
\* of String(input) matters.
Str(toks) == [isString |-> TRUE, toks |-> toks, strLen |-> TextLen(toks)]
NonStr(n) == [isString |-> FALSE, toks |-> <<>>, strLen |-> n]

\* parseJson(input): the decoded value, or the ParseError thrown with the
\* length of its rawOutput
parseJson(input) ==
    IF ~input.isString
    THEN [ok |-> FALSE, value |-> 0, rawOutput |-> Slice(input.strLen, ParseRawLimit)]
    ELSE LET r == JSONparse(stripped(input.toks))
         IN IF r.ok THEN [ok |-> TRUE, value |-> r.value, rawOutput |-> NoRaw]
            ELSE [ok |-> FALSE, value |-> 0, rawOutput |-> input.strLen]

RECURSIVE SeqsUpTo(_, _)
SeqsUpTo(S, n) ==
    IF n = 0 THEN {<<>>}
    ELSE LET shorter == SeqsUpTo(S, n - 1)
         IN shorter \cup {Append(q, t) : q \in shorter, t \in S}

\* null, a number, an object ("[object Object]"), an array whose String() is long
DecoderInputs ==
    {Str(q) : q \in SeqsUpTo(Tokens, MaxTokens)} \cup {NonStr(n) : n \in {4, 1, 15, LongRaw}}

\* fn is `async (text) => parseJson(text)` over some text: it resolves with
\* the decoded value or rejects with parseJson's ParseError
ProducerParseJson(c) ==
    \E x \in DecoderInputs :
        LET r == parseJson(x)
        IN Settle(c, [kind |-> IF r.ok THEN "value" ELSE "parseError",
                      good |-> r.ok, by |-> callCount[c],
                      rawOutput |-> r.rawOutput, input |-> x])

NextParse ==
    \/ guardedCall(1)
    \/ ProducerParseJson(1)
    \/ AttemptReturned(1)
    \/ AttemptThrew(1)

InitParse ==
    /\ maxAttempts = 1
    /\ retryOn = RetryKinds
    /\ onFail = "raise"
    /\ inputParam = InputParamUnset
    /\ inputSchema = FALSE
    /\ outputSchema = TRUE
    /\ args = [c \in Calls |-> <<Prim("good")>>]
    /\ InitCalls({1})
    /\ InitNoMock

SpecParse == InitParse /\ [][NextParse]_vars

\* ================================================================== claims
Started(c) == pc[c] \notin {"idle", "absent"}
Done(c) == pc[c] = "done"

\* the ledger a violation of call c shows when it is read: the call's own
\* history array when it was handed one, its private [] otherwise
LedgerOf(c, v) == IF v.shared THEN history[c] ELSE <<>>

\* how an invocation of fn ended, as the guard classifies it
FailedValidation(p) == p.kind = "value" /\ outputSchema /\ ~p.good
FailedParse(p) == p.kind = "parseError"
Accepted(p) == p.kind = "value" /\ (~outputSchema \/ p.good)

Numbered(ledger) == \A i \in 1..Len(ledger) : ledger[i].attempt = i

\* C1: with the default retryable kinds, a producer that fails output validation
\* on every attempt is invoked exactly maxAttempts times and the call ends in a
\* Violation whose ledger has exactly maxAttempts entries, numbered 1..maxAttempts,
\* and whose totalAttempts is maxAttempts.
C1_Exhaustion ==
    \A c \in Calls :
        ( /\ Done(c)
          /\ retryOn = RetryKinds
          /\ produced[c] # <<>>
          /\ \A i \in 1..Len(produced[c]) : FailedValidation(produced[c][i]) )
        => /\ callCount[c] = maxAttempts
           /\ violations[c] # <<>>
           /\ LET v == violations[c][Len(violations[c])]
              IN /\ v.contractType = "output"
                 /\ v.totalAttempts = maxAttempts
                 /\ Len(LedgerOf(c, v)) = maxAttempts
                 /\ Numbered(LedgerOf(c, v))

\* The same statement for a guard whose onFail is one of the built-in policies
\* (not a handler function): there it holds.
ExhaustionBuiltinPolicy == onFail # Custom => C1_Exhaustion

C1_Witness ==
    /\ Done(1) /\ maxAttempts = 3 /\ retryOn = RetryKinds /\ onFail = "raise"
    /\ Len(produced[1]) = 3
    /\ \A i \in 1..3 : FailedValidation(produced[1][i])
    /\ outcome[1].tag = "violation"

\* C2: whatever fn of a call reads from the `retry` proxy while its invocation
\* runs, at entry or after any suspension during which the other call ran, is
\* the state built for that call's own current attempt: attempt, isRetry,
\* lastError and feedback() are those of its own loop.
C2_Isolation ==
    \A c \in Calls :
        pc[c] = "running"
        => /\ lastRead[c].attempt = attempt[c]
           /\ lastRead[c].isRetry = (attempt[c] > 1)
           /\ lastRead[c].lastError = lastError[c]
           /\ lastRead[c].feedback = formatFeedback(lastError[c])
           /\ lastRead[c].history = history[c]

\* call 1 is in its second attempt, call 2 entered its first attempt after that,
\* and call 1 has since resumed and read the proxy
C2_Witness ==
    /\ pc[1] = "running" /\ pc[2] = "running"
    /\ attempt[1] = 2 /\ attempt[2] = 1
    /\ lastRun = 2
    /\ resumed[1] = 1
    /\ lastRead[1].attempt = 2

\* C3: the attempt numbers fn reads on its successive invocations within one
\* call are 1, 2, ..., k with k <= maxAttempts, and isRetry is false exactly on
\* attempt 1.
C3_AttemptSequence ==
    \A c \in Calls :
        /\ Len(seen[c]) = callCount[c]
        /\ Len(seen[c]) <= maxAttempts
        /\ \A i \in 1..Len(seen[c]) :
              /\ seen[c][i].attempt = i
              /\ seen[c][i].isRetry = (i # 1)
              /\ (seen[c][i].isRetry = FALSE) <=> (seen[c][i].attempt = 1)

C3_Witness ==
    /\ Len(seen[1]) = 3
    /\ seen[1][1].isRetry = FALSE
    /\ seen[1][3].attempt = 3 /\ seen[1][3].isRetry = TRUE

\* C4: when fn's first accepted return is its k-th invocation and every earlier
\* invocation failed with a kind that is in retryOn, fn is invoked exactly k
\* times and the call returns the value of the k-th invocation; no violation is
\* built and the failure policy is not applied.
RetryableFailure(p) ==
    \/ FailedValidation(p) /\ "validation" \in retryOn
    \/ FailedParse(p) /\ "parse" \in retryOn

C4_SuccessOnAttemptK ==
    \A c \in Calls : \A k \in 1..Len(produced[c]) :
        ( /\ Accepted(produced[c][k])
          /\ \A i \in 1..(k - 1) : RetryableFailure(produced[c][i]) )
        => /\ callCount[c] = k
           /\ pc[c] \in {"settled", "done"}
           /\ violations[c] = <<>> /\ handled[c] = <<>>
           /\ Done(c) => outcome[c] = Returned("result", k, Undefined, 0)

C4_Witness ==
    /\ Done(1) /\ maxAttempts = 3 /\ outputSchema
    /\ Len(produced[1]) = 3
    /\ FailedValidation(produced[1][1]) /\ FailedParse(produced[1][2])
    /\ Accepted(produced[1][3])
    /\ outcome[1].tag = "result" /\ outcome[1].by = 3

\* C5: when an input schema is configured and rejects the input value, fn is
\* never invoked; the call ends at once in a Violation with contractType input,
\* an empty ledger and totalAttempts 1, and the failure policy is applied to it.
C5_InputRejected ==
    \A c \in Calls :
        (Started(c) /\ inputSchema /\ ~inputData[c].good)
        => /\ Done(c)
           /\ callCount[c] = 0 /\ produced[c] = <<>> /\ attempt[c] = 0
           /\ Len(violations[c]) = 1
           /\ violations[c][1].contractType = "input"
           /\ violations[c][1].totalAttempts = 1
           /\ LedgerOf(c, violations[c][1]) = <<>>
           /\ history[c] = <<>>
           /\ Len(handled[c]) = 1
           /\ outcome[c] = handled[c][1]
           /\ \E h \in HandlerBehaviours :
                 outcome[c] = handleFailure(1, inputData[c], onFail, h)

C5_Witness ==
    /\ Done(1) /\ inputSchema /\ ~inputData[1].good
    /\ maxAttempts = 3 /\ retryOn = RetryKinds
    /\ callCount[1] = 0
    /\ outcome[1].tag = "violation"

\* C6: a failure kind that is not in retryOn ends the call on its first
\* occurrence with no further invocation of fn, whatever maxAttempts is: a
\* ParseError is then re-thrown as it is, an output-validation failure ends in a
\* Violation whose ledger stops at that attempt; a kind that is in retryOn is
\* retried as long as attempts remain.
FirstParseFailure(c, k) ==
    FailedParse(produced[c][k]) /\ \A i \in 1..(k - 1) : ~FailedParse(produced[c][i])
FirstValidationFailure(c, k) ==
    /\ FailedValidation(produced[c][k])
    /\ \A i \in 1..(k - 1) : ~FailedValidation(produced[c][i])

C6_DisabledKindNotRetried ==
    \A c \in Calls : \A k \in 1..Len(produced[c]) :
        /\ (FirstParseFailure(c, k) /\ "parse" \notin retryOn)
           => /\ callCount[c] = k
              /\ Done(c) => outcome[c] = Threw("parseError", 0)
        /\ (FirstValidationFailure(c, k) /\ "validation" \notin retryOn)
           => /\ callCount[c] = k
              /\ Done(c) =>
                   /\ violations[c] # <<>>
                   /\ LET ledger == LedgerOf(c, violations[c][Len(violations[c])])
                      IN ledger # <<>> /\ ledger[Len(ledger)].attempt = k
        /\ (RetryableFailure(produced[c][k]) /\ k < maxAttempts /\ pc[c] # "settled")
           => callCount[c] > k

\* C7: a ParseError thrown by fn that is not retried is re-thrown unchanged, with
\* no Violation built and no failure policy applied, when maxAttempts = 1 or
\* "parse" is not in retryOn; otherwise (attempts exhausted) a Violation with
\* contractType output is built from the full ledger and the failure policy is
\* applied to it.
C7_ParseErrorNotRetried ==
    \A c \in Calls :
        (Done(c) /\ produced[c] # <<>> /\ FailedParse(produced[c][Len(produced[c])]))
        => IF maxAttempts = 1 \/ "parse" \notin retryOn
           THEN /\ outcome[c] = Threw("parseError", 0)
                /\ violations[c] = <<>>
                /\ handled[c] = <<>>
           ELSE /\ callCount[c] = maxAttempts
                /\ violations[c] # <<>> /\ handled[c] # <<>>
                /\ LET n == Len(violations[c])
                       v == violations[c][n]
                   IN /\ v.contractType = "output"
                      /\ v.shared
                      /\ v.totalAttempts = Len(history[c])
                      /\ Len(handled[c]) = n
                      /\ outcome[c] = handled[c][n]
                      /\ outcome[c].viol = n

\* a policy that does not raise still lets the raw ParseError through
C7_Witness ==
    /\ Done(1) /\ maxAttempts = 3 /\ "parse" \notin retryOn /\ onFail = "returnNull"
    /\ callCount[1] = 1
    /\ FailedParse(produced[1][1])
    /\ outcome[1] = Threw("parseError", 0)

\* C8: a failure thrown by fn that is not a ParseError leaves guarded at once
\* and unmodified, on any attempt: fn is not invoked again, nothing is appended
\* to the ledger, no Violation is built, the failure policy is not applied.
C8_UnrelatedFailure ==
    [][\A c \in Calls :
          (pc[c] = "settled" /\ pending[c].kind = "error" /\ pc'[c] # "settled")
          => /\ pc'[c] = "done"
             /\ outcome'[c] = Threw("error", 0)
             /\ callCount'[c] = callCount[c]
             /\ history'[c] = history[c]
             /\ violations'[c] = violations[c]
             /\ handled'[c] = handled[c]]_vars

C8_Witness ==
    /\ Done(1) /\ maxAttempts = 3 /\ onFail = Custom /\ retryOn = RetryKinds
    /\ callCount[1] = 2
    /\ produced[1][2].kind = "error"
    /\ Len(history[1]) = 1
    /\ outcome[1] = Threw("error", 0)

\* the first argument as the caller passed it
OriginalInput(c) == IF Len(args[c]) = 0 THEN Undefined ELSE args[c][1]

ReturnInputApplied(c) ==
    Done(c) /\ onFail \in {"return_input", "returnInput"} /\ violations[c] # <<>>

\* C9 as stated: under return_input a terminal Violation makes the call return
\* the original first argument, as it was before the inputParam field was
\* extracted from it.
C9_ReturnsOriginalInput ==
    \A c \in Calls :
        ReturnInputApplied(c)
        => outcome[c].kind = "return" /\ outcome[c].input = OriginalInput(c)

\* C9 as amended: under return_input a terminal Violation makes the call return
\* the input value the guard resolved, resolveInputData(args, inputParam): the
\* extracted field when one was extracted, the first argument otherwise.
C9_ReturnsResolvedInput ==
    \A c \in Calls :
        ReturnInputApplied(c)
        => /\ outcome[c] = Returned("input", 0, resolveInputData(args[c], inputParam),
                                    Len(violations[c]))
           /\ inputParam = InputParamUnset => outcome[c].input = OriginalInput(c)

C9_Witness ==
    /\ ReturnInputApplied(1)
    /\ inputParam = "state"
    /\ args[1] = <<Obj({"state"}, "bad", TRUE)>>
    /\ violations[1][1].contractType = "output"
    /\ outcome[1].input = Prim("bad")

\* C10: the value validated against the input schema and returned by
\* return_input is the inputParam field of the first argument when inputParam is
\* configured and the first argument is a non-array object containing that key,
\* and the first argument itself otherwise.
ExpectedInput(c) ==
    LET a == args[c]
    IN IF Len(a) = 0 THEN Undefined
       ELSE IF /\ inputParam # InputParamUnset
               /\ a[1].kind = "object"
               /\ inputParam \in a[1].keys
            THEN Lift(a[1].val[inputParam])
            ELSE a[1]

C10_InputValue ==
    \A c \in Calls :
        Started(c)
        => /\ inputData[c] = ExpectedInput(c)
           /\ inputSchema =>
                ( (violations[c] # <<>> /\ violations[c][1].contractType = "input")
                  <=> ~ExpectedInput(c).good )
           /\ (Done(c) /\ outcome[c].tag = "input")
                => outcome[c].input = ExpectedInput(c)

\* an array carrying the key is not unwrapped
C10_Witness ==
    /\ Done(1) /\ inputParam = "state" /\ onFail = "return_input"
    /\ args[1] = <<Arr({"state"}, "good")>>
    /\ outcome[1].tag = "input"
    /\ outcome[1].input = Arr({"state"}, "good")

\* the action the configured policy prescribes for violation number n of call c
PolicyAction(c, n) ==
    CASE onFail \in {"raise", "throw"} -> Threw("violation", n)
      [] onFail \in {"return_none", "returnNull"} -> Returned("null", 0, Undefined, n)
      [] onFail \in {"return_input", "returnInput"} -> Returned("input", 0, inputData[c], n)
      [] OTHER -> Returned("handler", 0, Undefined, n)

\* C11: a call that built a Violation built exactly one, applied the failure
\* policy to it exactly once, and ends with what that application produced:
\* raise throws the Violation, returnNull returns null, a handler function is
\* called once and what it returns (or throws) is what the call returns (or
\* throws), whatever the producer and the handler do.
C11_OnePolicyAction ==
    \A c \in Calls :
        violations[c] # <<>>
        => /\ Len(violations[c]) = 1
           /\ Len(handled[c]) = 1
           /\ Done(c)
           /\ outcome[c] = handled[c][1]
           /\ (onFail # Custom \/ outcome[c].kind = "return") => outcome[c] = PolicyAction(c, 1)

\* The same statement for the built-in policies and for handlers that do not
\* throw a ParseError: there it holds.
OnePolicyActionNoHandlerParseError ==
    (\A c \in Calls : \A i \in 1..Len(handled[c]) : handled[c][i].tag # "handlerParseError")
    => C11_OnePolicyAction

\* the handler was called, threw a ParseError, and was called a second time
C11_Witness ==
    /\ Done(1) /\ onFail = Custom /\ maxAttempts = 2 /\ retryOn = RetryKinds
    /\ Len(handled[1]) = 2
    /\ handled[1][1].tag = "handlerParseError"
    /\ outcome[1] = Returned("handler", 0, Undefined, 2)

\* toDict(): the serialized form of a violation of call c, as far as the
\* attempt bookkeeping goes: totalAttempts, and history mapped entry by entry
toDict(c, v) ==
    [totalAttempts |-> v.totalAttempts,
     history |-> [i \in 1..Len(LedgerOf(c, v)) |->
                     [attempt |-> LedgerOf(c, v)[i].attempt,
                      diagnostic |-> LedgerOf(c, v)[i].diagnostic]]]

\* C12: every Violation of a call has totalAttempts equal to the length of its
\* ledger when that is non-empty and 1 when it is empty, and its serialized form
\* carries that totalAttempts and a ledger with as many entries as the producer
\* was invoked in the call (none for an input violation).
C12_TotalAttempts ==
    \A c \in Calls : \A i \in 1..Len(violations[c]) :
        LET v == violations[c][i]
            ledger == LedgerOf(c, v)
            d == toDict(c, v)
        IN /\ v.totalAttempts = (IF ledger # <<>> THEN Len(ledger) ELSE 1)
           /\ d.totalAttempts = v.totalAttempts
           /\ Len(d.history) = callCount[c]
           /\ v.contractType = "input" => Len(d.history) = 0

\* The same statement when no handler throws a ParseError: there it holds.
TotalAttemptsNoHandlerParseError ==
    (\A c \in Calls : \A i \in 1..Len(handled[c]) : handled[c][i].tag # "handlerParseError")
    => C12_TotalAttempts

\* one producer invocation, one Violation with totalAttempts 1, two ledger entries
C12_Witness ==
    /\ Done(1) /\ onFail = Custom /\ maxAttempts = 1
    /\ callCount[1] = 1
    /\ Len(violations[1]) = 1
    /\ violations[1][1].totalAttempts = 1
    /\ Len(toDict(1, violations[1][1]).history) = 2

\* a diagnostic whose rawOutput, when it has one, is within the limit
RawWithin(d) == d.rawOutput <= DiagnosticRawLimit
\* a rendered feedback whose raw excerpt is that of diagnostic d, cut to the limit
ExcerptOf(f, d) ==
    /\ f.raw <= FeedbackRawLimit
    /\ f.raw = (IF d.rawOutput > 0 THEN Min(d.rawOutput, FeedbackRawLimit) ELSE NoRaw)
\* what the producer of a call read from the proxy, on entry and most recently
ProxyReads(c) ==
    {seen[c][i] : i \in 1..Len(seen[c])} \cup (IF lastRead[c] = NoRead THEN {} ELSE {lastRead[c]})

\* C13: every diagnostic in a ledger entry, in a state's lastError or in the
\* ledger of a Violation has a rawOutput of at most 500 characters, whatever
\* the length of the rawOutput the producer's ParseError carried, and the raw
\* excerpt that feedback() renders is at most 200 characters.
C13_RawOutputBounded ==
    \A c \in Calls :
        /\ \A i \in 1..Len(history[c]) : RawWithin(history[c][i].diagnostic)
        /\ RawWithin(lastError[c])
        /\ \A i \in 1..Len(violations[c]) :
              \A j \in 1..Len(LedgerOf(c, violations[c][i])) :
                  RawWithin(LedgerOf(c, violations[c][i])[j].diagnostic)
        /\ \A r \in ProxyReads(c) :
              /\ RawWithin(r.lastError)
              /\ \A j \in 1..Len(r.history) : RawWithin(r.history[j].diagnostic)
              /\ r.feedback.raw <= FeedbackRawLimit
        /\ \A i \in 1..Len(seen[c]) : ExcerptOf(seen[c][i].feedback, seen[c][i].lastError)

\* a ParseError with a rawOutput longer than 500 was recorded with 500
\* characters, shown to the next attempt with 200, and ended in a Violation
C13_Witness ==
    /\ Done(1) /\ maxAttempts = 2
    /\ Len(produced[1]) = 2 /\ Len(seen[1]) = 2 /\ Len(history[1]) = 2
    /\ produced[1][1].kind = "parseError" /\ produced[1][1].rawOutput > DiagnosticRawLimit
    /\ produced[1][2].kind = "parseError" /\ produced[1][2].rawOutput > DiagnosticRawLimit
    /\ history[1][1].diagnostic.rawOutput = DiagnosticRawLimit
    /\ seen[1][2].lastError.rawOutput = DiagnosticRawLimit
    /\ seen[1][2].feedback.raw = FeedbackRawLimit
    /\ violations[1] # <<>>
    /\ LedgerOf(1, violations[1][1])[2].diagnostic.rawOutput = DiagnosticRawLimit

\* what the proxy shows of a state built by mockRetry from options o
MockView(o) ==
    LET s == MockState(o)
    IN [attempt |-> s.attempt, maxAttempts |-> s.maxAttempts,
        remaining |-> s.remaining, isRetry |-> s.isRetry,
        isFinalAttempt |-> s.isFinalAttempt, lastError |-> s.lastError,
        history |-> s.history, feedback |-> mockFeedback(s.lastError)]

\* C14: a read of the `retry` proxy by module-level code, outside every run(),
\* shows the default state (attempt 1, maxAttempts 1, isRetry false, lastError
\* null, feedback() null), before, during and after a mockRetry body or a
\* guarded attempt; and the code of a mockRetry body that calls a guarded
\* function reads its own state again once the guarded attempts have ended:
\* a published state is not seen past its body.
C14_NoLeak ==
    /\ IF topRead = NoRead THEN TRUE
       ELSE /\ topRead.val.attempt = 1
            /\ topRead.val.maxAttempts = 1
            /\ topRead.val.isRetry = FALSE
            /\ topRead.val.lastError = NoDiag
            /\ topRead.val.feedback = NoFeedback
    /\ IF mockRead = NoRead THEN TRUE ELSE mockRead.val = MockView(mock.opts)

\* the mockRetry body called the guarded function, read the proxy after the
\* call had ended, then threw; module-level code read the proxy after that
C14_Witness ==
    /\ caller[1] = "body"
    /\ mock.opts.attempt = OptionUnset
    /\ Done(1) /\ callCount[1] = 2
    /\ mockRead # NoRead /\ mockRead.pc1 = "done"
    /\ mockRead.val.attempt = MockDefaultAttempt
    /\ mock.pc = "done" /\ mock.outcome = "throw"
    /\ topRead # NoRead /\ topRead.mockPc = "done" /\ topRead.pc1 = "done"

\* C15: what the producer reads through the proxy in attempt n of a guarded
\* call: on attempt 1 lastError and feedback() are null; on attempt n > 1
\* lastError is the diagnostic of ledger entry n-1, the failure of the attempt
\* just before, and feedback() is the non-null text rendering that diagnostic;
\* feedback() is null exactly when lastError is null.
C15_FeedbackOfPreviousAttempt ==
    \A c \in Calls : \A n \in 1..Len(seen[c]) :
        LET r == seen[c][n]
        IN /\ n = 1 => (r.lastError = NoDiag /\ r.feedback = NoFeedback)
           /\ n > 1 =>
                /\ Len(r.history) >= n - 1
                /\ r.history[n - 1].attempt = n - 1
                /\ r.lastError = r.history[n - 1].diagnostic
                /\ r.lastError # NoDiag
                /\ r.feedback # NoFeedback
                /\ r.feedback = formatFeedback(r.history[n - 1].diagnostic)
           /\ (r.feedback = NoFeedback) <=> (r.lastError = NoDiag)
           /\ (pc[c] = "running" /\ n = attempt[c]) => lastRead[c] = r

\* The same statement when no handler throws a ParseError: there it holds.
FeedbackNoHandlerParseError ==
    (\A c \in Calls : \A i \in 1..Len(handled[c]) : handled[c][i].tag # "handlerParseError")
    => C15_FeedbackOfPreviousAttempt

\* attempt 2 is shown the ParseError of the onFail handler, not the validation
\* failure of attempt 1
C15_Witness ==
    /\ Len(seen[1]) = 2 /\ onFail = Custom
    /\ FailedValidation(produced[1][1])
    /\ seen[1][2].history[1].diagnostic.type = "validation"
    /\ seen[1][2].lastError.type = "parse"
    /\ seen[1][2].feedback.type = "parse"

\* the caller left the second positional argument unset
SecondUnset(a) == Len(a) >= 2 /\ a[2].kind = "undefined"
\* the first argument is an options object with a present-but-unset retry field
RetryFieldUnset(a) ==
    Len(a) >= 1 /\ a[1].kind = "object" /\ "retry" \in a[1].keys /\ a[1].val["retry"] = "undefined"
\* the state is in the second position and every other argument is the caller's
InSecondPosition(ca, a, st) ==
    /\ Len(ca) = Len(a)
    /\ ca[2] = StateValue(st)
    /\ \A i \in (1..Len(a)) \ {2} : ca[i] = a[i]
\* the state is in the retry field of a copy of the first argument
InRetryField(ca, a, st) ==
    /\ Len(ca) = Len(a)
    /\ ca[1] = WithRetry(a[1], st)
    /\ \A i \in 2..Len(a) : ca[i] = a[i]
\* the state the proxy reports to the running producer of call c is st
AmbientStateIs(c, st) ==
    /\ st = getStore(c)
    /\ st.attempt = attempt[c]
    /\ lastRead[c].attempt = st.attempt
    /\ lastRead[c].lastError = st.lastError
    /\ lastRead[c].feedback = feedbackOf(st)

\* C16 as stated: the state is put in the second position when the caller
\* passed at least two arguments and left the second unset, in the retry field
\* when the caller passed an options object with a present-but-unset retry
\* field, and otherwise the producer receives the caller's arguments with
\* nothing injected.
C16_NothingInjectedOtherwise ==
    \A c \in Calls :
        pc[c] = "running"
        => LET a == args[c]
               ca == callArgs[c]
               st == state[c]
           IN /\ AmbientStateIs(c, st)
              /\ IF SecondUnset(a) THEN InSecondPosition(ca, a, st)
                 ELSE IF RetryFieldUnset(a) THEN InRetryField(ca, a, st)
                 ELSE ca = a

\* C16 as amended: with at least two arguments the state replaces an unset
\* second argument and nothing is injected when the second is set, whatever
\* the first holds; with exactly one argument that is an options object with a
\* present-but-unset retry field the state is put in that field of a copy;
\* otherwise (no argument, or one argument of any other shape) the state is
\* appended as an extra last argument and the caller's arguments precede it
\* as they are, an options object without a retry key still without one.  The
\* injected state is the state the proxy reports for the attempt, and every
\* attempt is built from the arguments as the caller passed them.
C16_Injection ==
    \A c \in Calls :
        pc[c] = "running"
        => LET a == args[c]
               ca == callArgs[c]
               st == state[c]
           IN /\ AmbientStateIs(c, st)
              /\ CASE Len(a) >= 2 /\ SecondUnset(a) -> InSecondPosition(ca, a, st)
                   [] Len(a) >= 2 /\ ~SecondUnset(a) -> ca = a
                   [] Len(a) = 1 /\ RetryFieldUnset(a) -> InRetryField(ca, a, st)
                   [] OTHER ->
                        /\ Len(ca) = Len(a) + 1
                        /\ ca[Len(ca)] = StateValue(st)
                        /\ \A i \in 1..Len(a) : ca[i] = a[i]
                        /\ (Len(a) = 1 /\ a[1].kind = "object" /\ "retry" \notin a[1].keys)
                              => "retry" \notin ca[1].keys

\* second attempt of myFunc({x: 1}): the producer receives the object without
\* a retry key, followed by the state of attempt 2
C16_Witness ==
    /\ pc[1] = "running" /\ attempt[1] = 2
    /\ args[1] = <<NoRetryKey>>
    /\ Len(callArgs[1]) = 2
    /\ callArgs[1][1] = NoRetryKey
    /\ callArgs[1][2].state.attempt = 2

\* second attempt of myFunc({x: 1, retry: undefined})
InjectedInFieldWitness ==
    /\ pc[1] = "running" /\ attempt[1] = 2
    /\ args[1] = <<RetryUnset>>
    /\ callArgs[1][1].retry.attempt = 2

\* the attempt and maxAttempts a mockRetry body is to see for options o
GivenAttempt(o) == IF o.attempt = OptionUnset THEN MockDefaultAttempt ELSE o.attempt
GivenMaxAttempts(o) ==
    IF o.maxAttempts = OptionUnset THEN MockDefaultMaxAttempts ELSE o.maxAttempts
\* the rendered feedback contains the text t
Contains(f, t) == f # NoFeedback /\ f.message = t

\* what every read of the proxy inside the mockRetry body shows of the counters
MockCounters(r, o) ==
    /\ r.attempt = GivenAttempt(o)
    /\ r.maxAttempts = GivenMaxAttempts(o)
    /\ r.isRetry = (r.attempt > 1)
    /\ r.remaining = r.maxAttempts - r.attempt
    /\ r.isFinalAttempt = (r.attempt = r.maxAttempts)

\* C17 as stated: inside fn the proxy reports the given attempt and maxAttempts
\* (2 and 3 by default) and the counters derived from them; feedback() is
\* non-null and contains feedbackText whenever a feedbackText is given, and is
\* null when neither feedbackText nor lastError is given; mockRetry settles as
\* fn does.
C17_FeedbackTextWheneverGiven ==
    /\ IF mockRead = NoRead THEN TRUE
       ELSE LET r == mockRead.val
                o == mock.opts
            IN /\ MockCounters(r, o)
               /\ o.feedbackText # TextUnset => Contains(r.feedback, o.feedbackText)
               /\ (o.feedbackText = TextUnset /\ o.lastError = NoDiag)
                     => r.feedback = NoFeedback
    /\ mock.pc = "done" => mock.outcome = mock.fnResult

\* C17 as amended: the counters as stated; feedback() is non-null and contains
\* feedbackText when a non-empty feedbackText is given and no lastError is
\* given; when a lastError is given feedback() is non-null and renders the
\* message of that lastError, feedbackText being ignored; feedback() is null
\* when no lastError is given and feedbackText is absent or empty; mockRetry
\* settles as fn does.
C17_MockState ==
    /\ IF mockRead = NoRead THEN TRUE
       ELSE LET r == mockRead.val
                o == mock.opts
            IN /\ MockCounters(r, o)
               /\ r.history = <<>>
               /\ (o.lastError = NoDiag /\ TruthyText(o.feedbackText))
                     => /\ Contains(r.feedback, o.feedbackText)
                        /\ r.lastError = MockDiagnostic("validation", o.feedbackText)
               /\ o.lastError # NoDiag
                     => /\ Contains(r.feedback, o.lastError.message)
                        /\ r.lastError = o.lastError
               /\ (o.lastError = NoDiag /\ ~TruthyText(o.feedbackText))
                     => r.feedback = NoFeedback /\ r.lastError = NoDiag
    /\ mock.pc = "done" => mock.outcome = mock.fnResult

\* both a lastError and a feedbackText were given; fn read the feedback of the
\* lastError after a suspension and returned
C17_Witness ==
    /\ mock.pc = "done" /\ mock.outcome = "return"
    /\ mock.opts.attempt = OptionUnset /\ mock.opts.maxAttempts = OptionUnset
    /\ mock.opts.lastError = GivenLastError /\ mock.opts.feedbackText = CannedText
    /\ mock.resumed = 1
    /\ mockRead # NoRead
    /\ mockRead.val.attempt = MockDefaultAttempt
    /\ mockRead.val.maxAttempts = MockDefaultMaxAttempts
    /\ mockRead.val.feedback.message = "bad json"

\* the test of the repository: feedbackText alone
FeedbackTextAloneWitness ==
    /\ mock.pc = "body"
    /\ mock.opts.lastError = NoDiag /\ mock.opts.feedbackText = CannedText
    /\ mock.opts.attempt = MaxMockAttempt
    /\ mockRead.val.isRetry /\ mockRead.val.feedback.message = CannedText

IsPrefix(s1, s2) == Len(s1) <= Len(s2) /\ SubSeq(s2, 1, Len(s1)) = s1

\* the invocations of fn in call c whose outcome the guard has classified: those
\* that settled with a value or a ParseError and that guarded has resumed from
Classified(c) ==
    {i \in 1..Len(produced[c]) :
        /\ produced[c][i].kind \in {"value", "parseError"}
        /\ i = Len(produced[c]) => pc[c] # "settled"}

LedgerOK(c) ==
    /\ Len(history[c]) = Cardinality(Classified(c))
    /\ Numbered(history[c])
    /\ \A i \in 1..Len(history[c]) :
          history[c][i].diagnostic = NoDiag => i = Len(history[c])

NoHandlerParseError ==
    \A c \in Calls : \A i \in 1..Len(handled[c]) : handled[c][i].tag # "handlerParseError"

\* C18: in every step of every guarded call, whatever the producer and the
\* failure handler do, the ledger only grows at its end, holds exactly one
\* record per producer invocation classified so far, numbers its records
\* 1, 2, ... in order, and has a success record (diagnostic null) only in last
\* position.
C18_LedgerInvariant ==
    [][\A c \in Calls : IsPrefix(history[c], history'[c]) /\ LedgerOK(c)']_vars

\* The same statement when no handler throws a ParseError: there it holds.
LedgerInvariantNoHandlerParseError ==
    [][NoHandlerParseError'
         => \A c \in Calls : IsPrefix(history[c], history'[c]) /\ LedgerOK(c)']_vars

\* one producer invocation, two ledger records, both numbered 1
C18_Witness ==
    /\ callCount[1] = 1 /\ onFail = Custom
    /\ Len(history[1]) = 2
    /\ history[1][1].attempt = 1 /\ history[1][2].attempt = 1

\* a step of call c that starts the next attempt
Retries(c) == callCount'[c] > callCount[c] /\ callCount[c] > 0

\* what one step may do to the policy bookkeeping of call c
PolicyStep(c) ==
    /\ Retries(c)
         => /\ Len(history'[c]) = Len(history[c]) + 1
            /\ history'[c][Len(history'[c])].diagnostic # NoDiag
            /\ violations'[c] = violations[c]
            /\ handled'[c] = handled[c]
            /\ outcome'[c] = NoOutcome
    /\ handled'[c] # handled[c]
         => /\ pc'[c] = "done"
            /\ Len(handled'[c]) = Len(handled[c]) + 1
            /\ Len(violations'[c]) = Len(handled'[c])
    /\ handled[c] # <<>>
         => /\ callCount'[c] = callCount[c]
            /\ history'[c] = history[c]
            /\ pc'[c] = "done"

\* C19: the failure policy is applied only when the call ends: a step that
\* goes on to the next attempt appends one failure record to the ledger and
\* nothing else (no Violation is built, handleFailure is not applied, the call
\* stays unsettled); a step that applies the policy ends the call; and once the
\* policy has been applied fn is not invoked again and the ledger gets no
\* further record.
C19_PolicyOnlyAtTerminalOutcome == [][\A c \in Calls : PolicyStep(c)]_vars

\* The same statement when no handler throws a ParseError: there it holds.
PolicyOnlyAtTerminalNoHandlerParseError ==
    [][NoHandlerParseError' => \A c \in Calls : PolicyStep(c)]_vars

\* the handler was called on attempt 1, and fn was invoked again after that
C19_Witness ==
    /\ onFail = Custom /\ retryOn = {"parse"}
    /\ pc[1] = "running" /\ callCount[1] = 2
    /\ Len(handled[1]) = 1 /\ Len(violations[1]) = 1

\* the invocations of fn in call c that have begun and not yet settled
Active(c) == callCount[c] - Len(produced[c])

\* what one step may do to the invocations of call c
SequentialStep(c) ==
    /\ Active(c)' \in {0, 1}
    /\ (Active(c)' = 1) <=> (pc'[c] = "running")
    /\ Len(retryStorage'[c]) = Active(c)'
    /\ callCount'[c] # callCount[c]
         => /\ callCount'[c] = callCount[c] + 1
            /\ attempt'[c] = callCount'[c]
            /\ Active(c) = 0
            /\ callCount[c] > 0
                 => /\ pc[c] = "settled"
                    /\ Len(history'[c]) > Len(history[c])
                    /\ history'[c][Len(history'[c])].attempt = callCount[c]
                    /\ history'[c][Len(history'[c])].diagnostic = lastError'[c]
                    /\ state'[c].history = history'[c]
    /\ (pc[c] = "settled" /\ pc'[c] # "settled")
         => /\ pc'[c] \in {"running", "done"}
            /\ pc'[c] = "running" => callCount'[c] = callCount[c] + 1

\* C20: within one call at most one invocation of fn is unsettled at any time,
\* also while another call is running; an attempt begins only in a step in
\* which no invocation of the call is unsettled, and attempt n+1 begins in the
\* very step that resumed from attempt n's settled invocation, classified it
\* and appended its record to the ledger: fn is invoked in that same step,
\* with no waiting step in between.
C20_Sequential == [][\A c \in Calls : SequentialStep(c)]_vars

\* call 1 is in its second attempt while call 2 is in its first
C20_Witness ==
    /\ pc[1] = "running" /\ callCount[1] = 2 /\ Len(produced[1]) = 1
    /\ Len(history[1]) = 1 /\ history[1][1].attempt = 1
    /\ pc[2] = "running" /\ callCount[2] = 1
    /\ Len(retryStorage[1]) = 1

\* The state object handed to attempt i of call c, as it is now.  Its fields
\* are the values the object literal was built with (nothing assigns to them:
\* history is the copy [...history], lastError a diagnostic nobody mutates);
\* feedback is the closure, evaluated when it is called (feedbackOf).
StateOfAttempt(c, i) ==
    IF i = Len(seen[c]) THEN state[c]
    ELSE NewState(c, i, maxAttempts, seen[c][i].lastError, seen[c][i].history)

\* the fields of state object s are those read when attempt i was entered
SameFields(s, r) ==
    /\ s.attempt = r.attempt /\ s.maxAttempts = r.maxAttempts
    /\ s.remaining = r.remaining /\ s.isRetry = r.isRetry
    /\ s.isFinalAttempt = r.isFinalAttempt
    /\ s.lastError = r.lastError /\ s.history = r.history

\* C21: the state object handed to attempt n reads the same whenever it is
\* read: every field and the result of feedback() are what the producer read
\* on entering attempt n, also after attempt n has ended and after later
\* attempts have failed (the state of attempt 1 keeps lastError null and
\* feedback() null), and its history stays the snapshot it was, whatever is
\* appended to the call's ledger later.
C21_StateImmutable ==
    \A c \in Calls : \A i \in 1..Len(seen[c]) :
        /\ SameFields(StateOfAttempt(c, i), seen[c][i])
        /\ feedbackOf(StateOfAttempt(c, i)) = seen[c][i].feedback
        /\ i = 1 => /\ StateOfAttempt(c, i).lastError = NoDiag
                    /\ feedbackOf(StateOfAttempt(c, i)) = NoFeedback

\* The fields alone, without feedback(): they do stay as published.
StateFieldsImmutable ==
    \A c \in Calls : \A i \in 1..Len(seen[c]) :
        /\ SameFields(StateOfAttempt(c, i), seen[c][i])
        /\ IsPrefix(StateOfAttempt(c, i).history, history[c])

\* a single attempt failed validation: its state object still has lastError
\* null, and its feedback() now renders the failure of that very attempt
C21_Witness ==
    /\ Done(1) /\ maxAttempts = 1 /\ onFail = "raise"
    /\ Len(seen[1]) = 1 /\ Len(produced[1]) = 1
    /\ FailedValidation(produced[1][1])
    /\ state[1].attempt = 1 /\ state[1].lastError = NoDiag
    /\ seen[1][1].feedback = NoFeedback
    /\ feedbackOf(state[1]).type = "validation"

\* C22: every state the guard publishes has 1 <= attempt <= maxAttempts,
\* remaining = maxAttempts - attempt >= 0, isRetry = (attempt > 1),
\* isFinalAttempt = (attempt = maxAttempts), and a history of exactly
\* attempt - 1 records, all of them failures, numbered 1..attempt-1.
C22_PublishedState ==
    \A c \in Calls :
        state[c] # NoStore
        => LET s == state[c]
           IN /\ 1 <= s.attempt /\ s.attempt <= s.maxAttempts
              /\ s.maxAttempts = maxAttempts
              /\ s.remaining = s.maxAttempts - s.attempt /\ s.remaining >= 0
              /\ s.isRetry = (s.attempt > 1)
              /\ s.isFinalAttempt = (s.attempt = s.maxAttempts)
              /\ Len(s.history) = s.attempt - 1
              /\ Numbered(s.history)
              /\ \A i \in 1..Len(s.history) : s.history[i].diagnostic # NoDiag
              /\ pc[c] = "running" => getStore(c) = s

\* The same statement when no handler throws a ParseError: there it holds.
PublishedStateNoHandlerParseError == NoHandlerParseError => C22_PublishedState

\* the state of attempt 2 is published with two records, both of attempt 1
C22_Witness ==
    /\ pc[1] = "running" /\ onFail = Custom
    /\ state[1].attempt = 2
    /\ Len(state[1].history) = 2
    /\ state[1].history[1].attempt = 1 /\ state[1].history[2].attempt = 1

\* C23: a call of a guard with an output schema returns a value of the
\* producer only when that value passed the output validation in the attempt
\* that produced it, which is the last attempt made, and a success record was
\* appended for that attempt; a value that failed validation is never the
\* call's result.
C23_ReturnsOnlyValidated ==
    \A c \in Calls :
        (Done(c) /\ outputSchema /\ outcome[c].kind = "return" /\ outcome[c].tag = "result")
        => LET k == outcome[c].by
           IN /\ k = callCount[c] /\ k = Len(produced[c]) /\ k = attempt[c]
              /\ produced[c][k].kind = "value" /\ safeParse(produced[c][k])
              /\ history[c] # <<>>
              /\ history[c][Len(history[c])] = AttemptRecord(k, NoDiag)
              /\ \A i \in 1..Len(produced[c]) :
                    FailedValidation(produced[c][i]) => outcome[c].by # i

\* the third value is returned after two rejected ones
C23_Witness ==
    /\ Done(1) /\ outputSchema /\ maxAttempts = 3
    /\ Len(produced[1]) = 3
    /\ FailedValidation(produced[1][1]) /\ FailedValidation(produced[1][2])
    /\ outcome[1] = Returned("result", 3, Undefined, 0)
    /\ history[1][3] = AttemptRecord(3, NoDiag)

\* the ways guarded explicitly ends: a returned producer value; the policy's
\* outcome for a Violation (raised, null, the input, what the handler returned
\* or threw); a re-thrown ParseError; a propagated other error
ExplicitOutcomes ==
    {"result", "violation", "null", "input", "handler", "handlerError",
     "handlerParseError", "parseError", "error"}

\* C24: for every maxAttempts >= 1, every retryOn and policy and every sequence
\* of producer outcomes, a call that has ended ended in one of the explicit
\* outcomes; `throw new Error('Unexpected end of retry loop')` after the loop
\* is never reached.
C24_NoUnexpectedEnd ==
    \A c \in Calls :
        /\ outcome[c].tag # "unexpectedEnd"
        /\ Done(c) => outcome[c].tag \in ExplicitOutcomes
        /\ Started(c) => attempt[c] <= maxAttempts

\* the loop ran its last iteration and ended through the failure policy
C24_Witness ==
    /\ Done(1) /\ maxAttempts = MaxAttemptsBound /\ onFail = "returnNull"
    /\ callCount[1] = maxAttempts
    /\ \A i \in 1..maxAttempts : FailedParse(produced[1][i])
    /\ outcome[1].tag = "null"

\* C25: when every invocation of fn settles, a guarded call that is made
\* ends: it reaches "done" with one outcome, which then stays; it never makes
\* more than maxAttempts invocations of fn; and as long as it has not ended it
\* is awaiting an invocation of fn or about to resume from one that settled.
C25_Termination ==
    /\ \A c \in Calls : (pc[c] = "idle") ~> (Done(c) /\ outcome[c] # NoOutcome)
    /\ [](\A c \in Calls :
            /\ callCount[c] <= maxAttempts
            /\ (Started(c) /\ ~Done(c)) => pc[c] \in {"running", "settled"}
            /\ Done(c) <=> outcome[c] # NoOutcome)
    /\ [][\A c \in Calls : Done(c) => (Done(c)' /\ outcome'[c] = outcome[c])]_vars

\* the call ended after maxAttempts invocations, the handler having thrown
C25_Witness ==
    /\ Done(1) /\ maxAttempts = MaxAttemptsLive /\ onFail = Custom
    /\ callCount[1] = maxAttempts
    /\ outcome[1].tag = "handlerError"

\* C26: nested publication.  While call 1's producer runs it starts guarded
\* call 2 and a mockRetry body.  At every moment of an attempt, before, during
\* and after the inner bodies, the proxy read in the producer's own context
\* is the state that producer saw on entry (same attempt, lastError and
\* feedback); the inner producer sees only the inner call's state and the
\* mock body only the mock state.
EntryRead(c) == seen[c][Len(seen[c])]

C26_NestedPublication ==
    /\ \A c \in Calls :
          pc[c] = "running" =>
              /\ Len(seen[c]) = callCount[c]
              /\ retry(c) = EntryRead(c)
              /\ lastRead[c] = EntryRead(c)
              /\ retry(c).attempt = attempt[c]
              /\ retry(c).lastError = lastError[c]
              /\ retry(c).feedback = formatFeedback(lastError[c])
    /\ mock.pc = "body" => retryIn("body") = MockView(mock.opts)
    /\ mockRead # NoRead => mockRead.val = MockView(mock.opts)

\* the outer producer is in its second attempt and has read the proxy again
\* while nothing inner is left running: the inner call used both of its own
\* attempts and the mock body has finished
C26_Witness ==
    /\ pc[1] = "running" /\ attempt[1] = 2 /\ resumed[1] = 1
    /\ lastError[1] # NoDiag
    /\ Done(2) /\ callCount[2] = 2
    /\ mock.pc = "done" /\ mockRead # NoRead
    /\ lastRead[1].attempt = 2

\* The k-th ledger record of call c is the record of the k-th classified
\* invocation of c's own producer: numbered k, without a diagnostic exactly
\* when the guard accepted that invocation's value.
OwnRecords(c) ==
    /\ Len(history[c]) = Cardinality(Classified(c))
    /\ Numbered(history[c])
    /\ \A i \in 1..Len(history[c]) :
          /\ i <= Len(produced[c])
          /\ (history[c][i].diagnostic = NoDiag) <=> Accepted(produced[c][i])

\* the ledgerSoFar snapshot given to attempt i is the first i-1 records of the
\* call's ledger, and a violation built from the ledger shows that ledger
OwnSnapshots(c) ==
    /\ \A i \in 1..Len(seen[c]) :
          /\ Len(seen[c][i].history) = i - 1
          /\ IsPrefix(seen[c][i].history, history[c])
    /\ \A i \in 1..Len(violations[c]) :
          violations[c][i].shared =>
              /\ LedgerOf(c, violations[c][i]) = history[c]
              /\ Numbered(LedgerOf(c, violations[c][i]))

\* a step in which call d records something leaves every other call's loop
\* state (ledger, lastError, attempt counter, position, outcome) as it was
OthersUntouched(d) ==
    history'[d] # history[d] =>
        \A c \in Calls \ {d} :
            /\ history'[c] = history[c] /\ lastError'[c] = lastError[c]
            /\ attempt'[c] = attempt[c] /\ callCount'[c] = callCount[c]
            /\ pc'[c] = pc[c] /\ outcome'[c] = outcome[c]
            /\ state'[c] = state[c] /\ violations'[c] = violations[c]

PerCallStep ==
    \A c \in Calls : OwnRecords(c)' /\ OwnSnapshots(c)' /\ OthersUntouched(c)

\* C27: two interleaved calls to one guard.  Each call's ledger, the
\* ledgerSoFar snapshots given to its attempts and the violation built from
\* it hold only records of that call's own attempts, numbered 1..k, and a
\* step in which one call records a failure changes nothing of the other
\* call's lastError, attempt counter, position or outcome.
C27_PerCallLedgers == [][PerCallStep]_vars

\* The same statement when no handler throws a ParseError: there it holds.
PerCallLedgersNoHandlerParseError == [][NoHandlerParseError' => PerCallStep]_vars

\* The part about the other call holds whatever the handler does.
C27_OthersUntouched == [][\A d \in Calls : OthersUntouched(d)]_vars

\* both calls interleaved, each with failures of its own; call 2's ledger has
\* three records for two invocations, two of them numbered 2
C27_Witness ==
    /\ onFail = Custom /\ maxAttempts = 2
    /\ callCount[1] = 2 /\ callCount[2] = 2
    /\ Len(history[1]) = 1 /\ pc[1] = "running"
    /\ Len(history[2]) = 3
    /\ history[2][2].attempt = 2 /\ history[2][3].attempt = 2

\* a token sequence that is digits, possibly surrounded by blanks, possibly
\* inside a code fence: an opening fence line before it and, optionally, a
\* closing fence after it
Blanks(q) == \A i \in 1..Len(q) : IsBlank(q[i])
OpeningFence(q) ==
    \E a \in 1..Len(q) : \E n \in a..Len(q) :
        /\ Blanks(SubSeq(q, 1, a - 1)) /\ q[a] = "FENCE"
        /\ \A i \in (a + 1)..(n - 1) : q[i] # "NL"
        /\ q[n] = "NL"
        /\ Blanks(SubSeq(q, n + 1, Len(q)))
ClosingFence(q) ==
    \E a \in 1..Len(q) :
        /\ Blanks(SubSeq(q, 1, a - 1)) /\ q[a] = "FENCE"
        /\ Blanks(SubSeq(q, a + 1, Len(q)))
JsonInFences(toks) ==
    \E i \in 1..Len(toks) : \E j \in i..Len(toks) :
        LET pre  == SubSeq(toks, 1, i - 1)
            post == SubSeq(toks, j + 1, Len(toks))
        IN /\ \A k \in i..j : toks[k] = "DIGIT"
           /\ \/ Blanks(pre) /\ Blanks(post)
              \/ OpeningFence(pre) /\ (Blanks(post) \/ ClosingFence(post))

Decoded(c) == {i \in 1..Len(produced[c]) : "input" \in DOMAIN produced[c][i]}

\* parseJson throws a ParseError exactly on the inputs that are not a string
\* or not JSON once BOM and fences are stripped
FailsOnMalformed ==
    \A c \in Calls : \A i \in Decoded(c) :
        LET p == produced[c][i]
        IN (p.kind = "parseError")
             <=> (~p.input.isString \/ ~JsonInFences(p.input.toks))

\* the ParseError's rawOutput is at most 500 characters, and so is that of a
\* ParseError the guard re-raises
RawTextBounded ==
    \A c \in Calls : \A i \in Decoded(c) :
        LET p == produced[c][i]
        IN /\ p.kind = "parseError" => p.rawOutput <= ParseRawLimit
           /\ (Done(c) /\ i = Len(produced[c]) /\ outcome[c].tag = "parseError")
                 => p.rawOutput <= ParseRawLimit

\* C28: parseJson fails with a ParseError on every input that is not a string
\* or is not valid JSON after BOM and code-fence stripping, and the rawOutput
\* of that ParseError is at most 500 characters for every input, also when
\* the guard re-raises the ParseError unchanged.
C28_ParseJson == FailsOnMalformed /\ RawTextBounded

\* The bound holds for the inputs that are not strings.
RawTextBoundedNonString ==
    \A c \in Calls : \A i \in Decoded(c) :
        ~produced[c][i].input.isString => produced[c][i].rawOutput <= ParseRawLimit

\* a string that is not JSON and longer than 500 characters: the guard
\* re-raised the ParseError, whose rawOutput is the whole string, while the
\* diagnostic in the ledger has 500 characters
C28_Witness ==
    /\ Done(1) /\ outcome[1].tag = "parseError"
    /\ Len(produced[1]) = 1 /\ "input" \in DOMAIN produced[1][1]
    /\ produced[1][1].input.isString
    /\ produced[1][1].input.toks = <<"FENCE", "NL", "LONG", "FENCE">>
    /\ produced[1][1].rawOutput = 7 + LongRaw
    /\ Len(history[1]) = 1
    /\ history[1][1].diagnostic.rawOutput = DiagnosticRawLimit

====
